---- MODULE Spec2Model ----
(***************************************************************************)
(* A stack bytecode interpreter with two dispatch strategies               *)
(* (src/src/lib.rs): threaded dispatch over compiled instructions          *)
(* (computed_goto) and a central decode loop over raw instructions         *)
(* (switch_based).                                                         *)
(*                                                                         *)
(* Indices are 0-based as in the source: the instruction at index i of a   *)
(* sequence s is s[i + 1].                                                 *)
(*                                                                         *)
(* A call is modelled step by step: the fetch of an instruction (the       *)
(* dispatch! macro, the top of the switch loop) is one step, the effect of *)
(* its handler the next.  The tail dispatch of a chained handler is taken  *)
(* to be a jump, as threaded dispatch intends: the depth of the call stack *)
(* is not part of the state.                                               *)
(***************************************************************************)
EXTENDS Naturals, Integers, Sequences, FiniteSets, TLC

VARIABLES program, code, compiled, ctx, prev, calls

vars ==
    <<program, code, compiled, ctx, prev, calls>>

\* ------------------------------------------------------------------ bounds

\* Longest program of the exhaustively enumerated family; If targets of that
\* family range over 0..MaxLen, so they include out-of-bounds indices.
MaxLen ==
    2

\* Longest run of Push instructions in the straight-line family.
MaxPush ==
    3

\* Capacity of the operand stack: a push on a stack of MaxStack values fails
\* to allocate.
MaxStack ==
    4

\* Number of execution calls the calling thread makes on one program.
MaxCalls ==
    2

\* Steps a call running alone is followed for.
SoloSteps ==
    16

\* ------------------------------------------------------------------- u32

\* A u32 is held as its two 16-bit halves <<high, low>>, so that every
\* intermediate result of the arithmetic below stays far from the range of
\* the model checker's integers while the values keep their 32 bits.
Half ==
    65536

U32(high, low) ==
    <<high, low>>

Zero ==
    U32(0, 0)

One ==
    U32(0, 1)

Two ==
    U32(0, 2)

\* 4294967295 = 0xFFFF_FFFF
U32Max ==
    U32(Half - 1, Half - 1)

\* The bytes of a u32, least significant first, and back.
Base ==
    256

Bytes(a) ==
    <<a[2] % Base, a[2] \div Base, a[1] % Base, a[1] \div Base>>

FromBytes(d) ==
    U32(d[4] * Base + d[3], d[2] * Base + d[1])

\* u32::saturating_add in the place of wrapping_add.
wrapping_add_saturating(a, b) ==
    LET low  == a[2] + b[2]
        high == a[1] + b[1] + (low \div Half)
    IN  IF high >= Half THEN U32(Half - 1, Half - 1) ELSE U32(high, low % Half)

\* u32::wrapping_add: the sum of the halves with the carry out of the low
\* half, bit 32 dropped.
wrapping_add(a, b) ==
    LET low  == a[2] + b[2]
        high == a[1] + b[1] + (low \div Half)
    IN  U32(high % Half, low % Half)

\* u32::wrapping_mul: long multiplication on the bytes, the columns above
\* byte 3 dropped.
wrapping_mul(a, b) ==
    LET x  == Bytes(a)
        y  == Bytes(b)
        p0 == x[1] * y[1]
        p1 == x[1] * y[2] + x[2] * y[1] + (p0 \div Base)
        p2 == x[1] * y[3] + x[2] * y[2] + x[3] * y[1] + (p1 \div Base)
        p3 == x[1] * y[4] + x[2] * y[3] + x[3] * y[2] + x[4] * y[1] + (p2 \div Base)
    IN  FromBytes(<<p0 % Base, p1 % Base, p2 % Base, p3 % Base>>)

\* Literals the generated programs push.
PushVals ==
    {Zero, One, U32Max}

\* ------------------------------------------------------- instruction set

\* enum Inst: a tag with the payload of the variant (unused fields are 0).
\* The If targets of the programs modelled are below 2^16, so a target is
\* written as the index it becomes under `as usize`.
Inst(tag, value, if_true, if_false) ==
    [tag |-> tag, value |-> value, if_true |-> if_true, if_false |-> if_false]

InstBegin ==
    Inst("Begin", Zero, 0, 0)

InstNop ==
    Inst("Nop", Zero, 0, 0)

InstStop ==
    Inst("Stop", Zero, 0, 0)

InstPush(v) ==
    Inst("Push", v, 0, 0)

InstIf(t, f) ==
    Inst("If", Zero, t, f)

InstAdd ==
    Inst("Add", Zero, 0, 0)

InstMul ==
    Inst("Mul", Zero, 0, 0)

\* Every instruction whose If targets are at most maxTarget.
Insts(maxTarget) ==
    {InstBegin, InstNop, InstStop, InstAdd, InstMul}
        \cup {InstPush(v) : v \in PushVals}
        \cup {InstIf(t, f) : t \in 0..maxTarget, f \in 0..maxTarget}

\* compile with the Add arm bound to the handler of Mul.
compile_add_as_mul(inst) ==
    CASE inst.tag = "Begin" -> [opcode |-> <<>>, execute |-> "begin"]
      [] inst.tag = "Nop"   -> [opcode |-> <<>>, execute |-> "nop"]
      [] inst.tag = "Stop"  -> [opcode |-> <<>>, execute |-> "stop"]
      [] inst.tag = "Push"  -> [opcode |-> <<inst.value>>, execute |-> "push"]
      [] inst.tag = "If"    -> [opcode |-> <<inst.if_true, inst.if_false>>,
                                execute |-> "if"]
      [] inst.tag = "Add"   -> [opcode |-> <<>>, execute |-> "mul"]
      [] inst.tag = "Mul"   -> [opcode |-> <<>>, execute |-> "mul"]

\* Opcode::compile: the payload goes into the untagged union (modelled as the
\* tuple of its words), the variant into the handler reference.
compile(inst) ==
    CASE inst.tag = "Begin" -> [opcode |-> <<>>, execute |-> "begin"]
      [] inst.tag = "Nop"   -> [opcode |-> <<>>, execute |-> "nop"]
      [] inst.tag = "Stop"  -> [opcode |-> <<>>, execute |-> "stop"]
      [] inst.tag = "Push"  -> [opcode |-> <<inst.value>>, execute |-> "push"]
      [] inst.tag = "If"    -> [opcode |-> <<inst.if_true, inst.if_false>>,
                                execute |-> "if"]
      [] inst.tag = "Add"   -> [opcode |-> <<>>, execute |-> "add"]
      [] inst.tag = "Mul"   -> [opcode |-> <<>>, execute |-> "mul"]

\* Compilation collecting the instructions last to first.
CompileAll_reversed(prog) ==
    [i \in 1..Len(prog) |-> compile(prog[Len(prog) + 1 - i])]

\* program.into_iter().map(Opcode::compile).collect()
CompileAll(prog) ==
    [i \in DOMAIN prog |-> compile(prog[i])]

\* ------------------------------------------------------------- programs

\* All programs of at most MaxLen instructions.
ShortPrograms ==
    UNION {[1..n -> Insts(MaxLen)] : n \in 0..MaxLen}

\* Begin, up to MaxPush pushes, one arbitrary instruction, Stop.
StraightPrograms ==
    {<<InstBegin>> \o pushes \o <<op, InstStop>> :
        pushes \in UNION {[1..n -> {InstPush(v) : v \in PushVals}] : n \in 0..MaxPush},
        op \in Insts(MaxLen)}

\* The shape of the benchmark program: a condition, a forward branch into a
\* tail of two pushes and an arithmetic instruction, Stop.
BranchPrograms ==
    {<<InstBegin, InstPush(c), InstIf(3, 4), InstPush(x), InstPush(y), op, InstStop>> :
        c \in PushVals, x \in {Two, U32Max}, y \in {Zero, One},
        op \in {InstAdd, InstMul}}

\* The program of benches/computed_goto.rs and benches/switch_based.rs.
SampleProgram ==
    <<InstBegin, InstPush(One), InstIf(3, 4), InstPush(Two), InstPush(Zero),
      InstAdd, InstStop>>

Programs ==
    ShortPrograms \cup StraightPrograms \cup BranchPrograms \cup {SampleProgram}

\* ---------------------------------------------------- execution context

\* The callers: each owns the context of the call it is making.
Threads ==
    {"main", "worker"}

\* No call in progress: the thread holds no context.
NoContext ==
    [strategy |-> "none", ip |-> 0, code |-> <<>>, stack |-> <<>>,
     pc |-> "idle", inst |-> 0, exit |-> "none", trace |-> <<>>]

\* The observable part of a context.
View(c) ==
    <<c.pc, c.ip, c.stack>>

\* History of a call: the views its context went through, in order of first
\* occurrence (a run that never returns to a view is recorded step by step).
Observe(c) ==
    IF \E i \in DOMAIN c.trace : c.trace[i] = View(c)
    THEN c
    ELSE [c EXCEPT !.trace = Append(@, View(c))]

\* struct VmContext as computed_goto builds it: ip 0, the compiled code, an
\* empty stack; the next step is the dispatch! of line 247.
NewThreadedContext(compiledCode) ==
    [strategy |-> "computed_goto", ip |-> 0, code |-> compiledCode, stack |-> <<>>,
     pc |-> "fetch", inst |-> 0, exit |-> "none", trace |-> <<>>]

\* struct VmContext as switch_based builds it: ip 0, no compiled code, an
\* empty stack; the next step is the fetch at the top of the loop.
NewSwitchContext ==
    [strategy |-> "switch_based", ip |-> 0, code |-> <<>>, stack |-> <<>>,
     pc |-> "fetch", inst |-> 0, exit |-> "none", trace |-> <<>>]

\* assert!(..., "expected operand") failing: the call unwinds with a panic.
Panic(c) ==
    [c EXCEPT !.pc = "panicked"]

\* SmallVec::push: appends, or fails to allocate when the stack is full.
StackPush(c, v) ==
    IF Len(c.stack) >= MaxStack
    THEN [c EXCEPT !.pc = "alloc_failed"]
    ELSE [c EXCEPT !.stack = Append(@, v)]

\* The value stack.pop() returns, and the context it leaves.
Top(c) ==
    c.stack[Len(c.stack)]

Pop(c) ==
    [c EXCEPT !.stack = SubSeq(@, 1, Len(@) - 1)]

\* dispatch! without its ip += 1.
dispatch_no_advance(c) ==
    [c EXCEPT !.inst = c.ip, !.pc = "execute"]

\* dispatch!: fetch the compiled instruction at ip, advance ip, call its handler.
dispatch(c) ==
    [c EXCEPT !.inst = c.ip, !.ip = c.ip + 1, !.pc = "execute"]

\* The chained handler's tail: control reaches its dispatch! unless the
\* handler's effect ended the call.
Chain(c) ==
    IF c.pc = "execute" THEN [c EXCEPT !.pc = "fetch"] ELSE c

\* ControlFlow::Continue(()) through the ? of the loop: back to the loop top.
Continue(c) ==
    IF c.pc = "execute" THEN [c EXCEPT !.pc = "fetch"] ELSE c

\* ControlFlow::Break(exit): the call returns exit.
Break(c, exit) ==
    [c EXCEPT !.pc = "returned", !.exit = exit]

\* ------------------------------------------------------ opcode handlers

\* Begin starting from an empty stack.
Begin_execute_resets(c) ==
    Chain([c EXCEPT !.stack = <<>>])

Begin_execute(c) ==
    Chain(c)

Begin_execute_nodispatch(c) ==
    Continue(c)

Nop_execute(c) ==
    Chain(c)

Nop_execute_nodispatch(c) ==
    Continue(c)

\* Stop returning the system error.
Stop_execute_error(c) ==
    Break(c, "Error")

Stop_execute(c) ==
    Break(c, "Stop")

\* Stop returning Continue.
Stop_execute_nodispatch_continues(c) ==
    Continue(c)

Stop_execute_nodispatch(c) ==
    Break(c, "Stop")

\* Push inserting the value under the stack instead of on top of it.
Push_execute_at_bottom(self, c) ==
    IF Len(c.stack) >= MaxStack
    THEN [c EXCEPT !.pc = "alloc_failed"]
    ELSE Chain([c EXCEPT !.stack = <<self>> \o @])

Push_execute(self, c) ==
    Chain(StackPush(c, self))

Push_execute_nodispatch(self, c) ==
    Continue(StackPush(c, self))

\* Add reporting the missing operand as a typed error instead of asserting.
Add_execute_typed_error(c) ==
    IF ~(Len(c.stack) > 1)
    THEN Break(c, "Error")
    ELSE LET b == Top(c)
             a == Top(Pop(c))
         IN  Chain(StackPush(Pop(Pop(c)), wrapping_add(a, b)))

Add_execute(c) ==
    IF ~(Len(c.stack) > 1)
    THEN Panic(c)
    ELSE LET b == Top(c)
             a == Top(Pop(c))
         IN  Chain(StackPush(Pop(Pop(c)), wrapping_add(a, b)))

Add_execute_nodispatch(c) ==
    IF ~(Len(c.stack) > 1)
    THEN Panic(c)
    ELSE LET b == Top(c)
             a == Top(Pop(c))
         IN  Continue(StackPush(Pop(Pop(c)), wrapping_add(a, b)))

Mul_execute(c) ==
    IF ~(Len(c.stack) > 1)
    THEN Panic(c)
    ELSE LET b == Top(c)
             a == Top(Pop(c))
         IN  Chain(StackPush(Pop(Pop(c)), wrapping_mul(a, b)))

\* Mul left with the wrapping_add of the Add it was copied from.
Mul_execute_nodispatch_adds(c) ==
    IF ~(Len(c.stack) > 1)
    THEN Panic(c)
    ELSE LET b == Top(c)
             a == Top(Pop(c))
         IN  Continue(StackPush(Pop(Pop(c)), wrapping_add(a, b)))

\* Mul popping its first operand before it looks for the second.
Mul_execute_nodispatch_pops_first(c) ==
    IF Len(c.stack) = 0
    THEN Panic(c)
    ELSE LET b == Top(c)
             rest == Pop(c)
         IN  IF Len(rest.stack) = 0
             THEN Panic(rest)
             ELSE Continue(StackPush(Pop(rest), wrapping_mul(Top(rest), b)))

Mul_execute_nodispatch(c) ==
    IF ~(Len(c.stack) > 1)
    THEN Panic(c)
    ELSE LET b == Top(c)
             a == Top(Pop(c))
         IN  Continue(StackPush(Pop(Pop(c)), wrapping_mul(a, b)))

\* If with the two branches exchanged.
If_execute_swapped(self, c) ==
    IF Len(c.stack) = 0
    THEN Panic(c)
    ELSE LET cond == Top(c)
         IN  IF cond = Zero
             THEN Chain([Pop(c) EXCEPT !.ip = self.if_true])
             ELSE Chain([Pop(c) EXCEPT !.ip = self.if_false])

If_execute(self, c) ==
    IF Len(c.stack) = 0
    THEN Panic(c)
    ELSE LET cond == Top(c)
         IN  IF cond = Zero
             THEN Chain([Pop(c) EXCEPT !.ip = self.if_false])
             ELSE Chain([Pop(c) EXCEPT !.ip = self.if_true])

\* The standalone If with the two branches exchanged.
If_execute_nodispatch_swapped(self, c) ==
    IF Len(c.stack) = 0
    THEN Panic(c)
    ELSE LET cond == Top(c)
         IN  IF cond = Zero
             THEN Continue([Pop(c) EXCEPT !.ip = self.if_true])
             ELSE Continue([Pop(c) EXCEPT !.ip = self.if_false])

If_execute_nodispatch(self, c) ==
    IF Len(c.stack) = 0
    THEN Panic(c)
    ELSE LET cond == Top(c)
         IN  IF cond = Zero
             THEN Continue([Pop(c) EXCEPT !.ip = self.if_false])
             ELSE Continue([Pop(c) EXCEPT !.ip = self.if_true])

\* opcode_impl!: read the union as the variant the handler belongs to.
UnionPush(opcode) ==
    opcode[1]

UnionIf(opcode) ==
    [if_true |-> opcode[1], if_false |-> opcode[2]]

\* ------------------------------------------------------------- the calls

\* A thread may start a call when it holds no context or its last call has
\* returned normally; a panic, an allocation failure or undefined behaviour
\* ends the thread.
CanCall(t) ==
    /\ calls[t] > 0
    /\ ctx[t].pc \in {"idle", "returned"}

\* The context of the returned call is dropped; its final value is kept as
\* the record of that call.
Retire(t) ==
    IF ctx[t].pc = "returned"
    THEN [prev EXCEPT ![t] = Append(@, ctx[t])]
    ELSE prev

\* let code = program.into_iter().map(Opcode::compile).collect::<Vec<_>>(),
\* done by the caller before its first call of computed_goto and outside any
\* call.
Compile ==
    /\ ~compiled
    /\ \A t \in Threads : ctx[t].pc \in {"idle", "returned"}
    /\ code' = CompileAll(program)
    /\ compiled' = TRUE
    /\ UNCHANGED <<program, ctx, prev, calls>>

\* computed_goto keeping the stack of the thread's previous context.
computed_goto_stale(t) ==
    /\ compiled
    /\ CanCall(t)
    /\ ctx' = [ctx EXCEPT ![t] =
                  Observe([NewThreadedContext(code) EXCEPT !.stack = ctx[t].stack])]
    /\ prev' = Retire(t)
    /\ calls' = [calls EXCEPT ![t] = @ - 1]
    /\ UNCHANGED <<program, code, compiled>>

\* computed_goto(code), up to its dispatch!
computed_goto(t) ==
    /\ compiled
    /\ CanCall(t)
    /\ ctx' = [ctx EXCEPT ![t] = Observe(NewThreadedContext(code))]
    /\ prev' = Retire(t)
    /\ calls' = [calls EXCEPT ![t] = @ - 1]
    /\ UNCHANGED <<program, code, compiled>>

\* switch_based(code), up to its loop
switch_based(t) ==
    /\ CanCall(t)
    /\ ctx' = [ctx EXCEPT ![t] = Observe(NewSwitchContext)]
    /\ prev' = Retire(t)
    /\ calls' = [calls EXCEPT ![t] = @ - 1]
    /\ UNCHANGED <<program, code, compiled>>

\* What an out-of-bounds get_unchecked can end in: undefined behaviour, after
\* which the call may return either Exit value or never return a value.
UndefinedOutcomes ==
    {"none", "Stop", "Error"}

Undefined(c, exit) ==
    [c EXCEPT !.pc = "undefined", !.exit = exit]

Threaded(t) ==
    ctx[t].strategy = "computed_goto"

Switch(t) ==
    ctx[t].strategy = "switch_based"

\* A step writing the context of every thread that is inside a call: one
\* context shared by all calls instead of one per call.
Step_shared_context(t, c) ==
    /\ ctx' = [u \in Threads |->
                  IF u = t \/ ctx[u].pc \in {"fetch", "execute"}
                  THEN Observe(c)
                  ELSE ctx[u]]
    /\ UNCHANGED <<program, code, compiled, prev, calls>>

Step(t, c) ==
    /\ ctx' = [ctx EXCEPT ![t] = Observe(c)]
    /\ UNCHANGED <<program, code, compiled, prev, calls>>

\* dispatch! with ip inside the compiled code
Dispatch(t) ==
    /\ Threaded(t) /\ ctx[t].pc = "fetch"
    /\ ctx[t].ip < Len(ctx[t].code)
    /\ Step(t, dispatch(ctx[t]))

\* dispatch! with ip past the end of the compiled code
DispatchOutOfBounds(t) ==
    /\ Threaded(t) /\ ctx[t].pc = "fetch"
    /\ ~(ctx[t].ip < Len(ctx[t].code))
    /\ \E exit \in UndefinedOutcomes : Step(t, Undefined(ctx[t], exit))

\* The loop top advancing ip by two.
\* The loop top writing the instruction sequence of the context as well.
fetch_taking(c) ==
    [c EXCEPT !.inst = c.ip, !.ip = c.ip + 1, !.pc = "execute",
              !.code = <<InstNop>>]

\* The loop top advancing ip by two.
fetch_skip(c) ==
    [c EXCEPT !.inst = c.ip, !.ip = c.ip + 2, !.pc = "execute"]

\* let opcode = code.get_unchecked(ctx.ip); ctx.ip += 1
fetch(c) ==
    [c EXCEPT !.inst = c.ip, !.ip = c.ip + 1, !.pc = "execute"]

Fetch(t) ==
    /\ Switch(t) /\ ctx[t].pc = "fetch"
    /\ ctx[t].ip < Len(program)
    /\ Step(t, fetch(ctx[t]))

FetchOutOfBounds(t) ==
    /\ Switch(t) /\ ctx[t].pc = "fetch"
    /\ ~(ctx[t].ip < Len(program))
    /\ \E exit \in UndefinedOutcomes : Step(t, Undefined(ctx[t], exit))

\* The compiled instruction a threaded context has fetched.
Fetched(c) ==
    c.code[c.inst + 1]

\* The raw instruction a switch context has fetched.
Opcode(c) ==
    program[c.inst + 1]

\* (inst.execute)(&inst.opcode, context): the handler the instruction carries.
Calls(t, handler) ==
    /\ Threaded(t) /\ ctx[t].pc = "execute"
    /\ Fetched(ctx[t]).execute = handler

Opcode_begin(t) ==
    /\ Calls(t, "begin")
    /\ Step(t, Begin_execute(ctx[t]))

Opcode_nop(t) ==
    /\ Calls(t, "nop")
    /\ Step(t, Nop_execute(ctx[t]))

Opcode_stop(t) ==
    /\ Calls(t, "stop")
    /\ Step(t, Stop_execute(ctx[t]))

Opcode_push(t) ==
    /\ Calls(t, "push")
    /\ Step(t, Push_execute(UnionPush(Fetched(ctx[t]).opcode), ctx[t]))

Opcode_if(t) ==
    /\ Calls(t, "if")
    /\ Step(t, If_execute(UnionIf(Fetched(ctx[t]).opcode), ctx[t]))

Opcode_add(t) ==
    /\ Calls(t, "add")
    /\ Step(t, Add_execute(ctx[t]))

Opcode_mul(t) ==
    /\ Calls(t, "mul")
    /\ Step(t, Mul_execute(ctx[t]))

\* match opcode { ... }?: the arm of the instruction's tag.
Matches(t, tag) ==
    /\ Switch(t) /\ ctx[t].pc = "execute"
    /\ Opcode(ctx[t]).tag = tag

Match_Begin(t) ==
    /\ Matches(t, "Begin")
    /\ Step(t, Begin_execute_nodispatch(ctx[t]))

Match_Nop(t) ==
    /\ Matches(t, "Nop")
    /\ Step(t, Nop_execute_nodispatch(ctx[t]))

Match_Stop(t) ==
    /\ Matches(t, "Stop")
    /\ Step(t, Stop_execute_nodispatch(ctx[t]))

Match_Push(t) ==
    /\ Matches(t, "Push")
    /\ Step(t, Push_execute_nodispatch(Opcode(ctx[t]).value, ctx[t]))

Match_Add(t) ==
    /\ Matches(t, "Add")
    /\ Step(t, Add_execute_nodispatch(ctx[t]))

Match_Mul(t) ==
    /\ Matches(t, "Mul")
    /\ Step(t, Mul_execute_nodispatch(ctx[t]))

Match_If(t) ==
    /\ Matches(t, "If")
    /\ Step(t, If_execute_nodispatch(
                   [if_true |-> Opcode(ctx[t]).if_true,
                    if_false |-> Opcode(ctx[t]).if_false], ctx[t]))

\* One step of the call thread t is making.
Run(t) ==
    \/ Dispatch(t)
    \/ DispatchOutOfBounds(t)
    \/ Opcode_begin(t)
    \/ Opcode_nop(t)
    \/ Opcode_stop(t)
    \/ Opcode_push(t)
    \/ Opcode_if(t)
    \/ Opcode_add(t)
    \/ Opcode_mul(t)
    \/ Fetch(t)
    \/ FetchOutOfBounds(t)
    \/ Match_Begin(t)
    \/ Match_Nop(t)
    \/ Match_Stop(t)
    \/ Match_Push(t)
    \/ Match_Add(t)
    \/ Match_Mul(t)
    \/ Match_If(t)

\* ------------------------------------------------------- specification

\* One thread runs MaxCalls calls, one after the other, on one program.
Init ==
    /\ program \in Programs
    /\ code = <<>>
    /\ compiled = FALSE
    /\ ctx = [t \in Threads |-> NoContext]
    /\ prev = [t \in Threads |-> <<>>]
    /\ calls = [t \in Threads |-> IF t = "main" THEN MaxCalls ELSE 0]

Next ==
    \/ Compile
    \/ \E t \in Threads : computed_goto(t)
    \/ \E t \in Threads : switch_based(t)
    \/ \E t \in Threads : Run(t)

Spec ==
    Init /\ [][Next]_vars

\* A call in progress keeps running: the thread executing it is never
\* suspended (execution is synchronous and non-suspending).
Fairness ==
    \A t \in Threads : WF_vars(Run(t))

\* One thread runs one call on one program.
OneCallInit ==
    /\ program \in Programs
    /\ code = <<>>
    /\ compiled = FALSE
    /\ ctx = [t \in Threads |-> NoContext]
    /\ prev = [t \in Threads |-> <<>>]
    /\ calls = [t \in Threads |-> IF t = "main" THEN 1 ELSE 0]

FairSpec ==
    OneCallInit /\ [][Next]_vars /\ Fairness

\* The programs several threads execute at once: the branch programs, the
\* programs of at most one instruction and the straight programs of at most
\* four instructions without an If.
SharedPrograms ==
    BranchPrograms
        \cup {p \in ShortPrograms : Len(p) <= 1}
        \cup {p \in StraightPrograms :
                 Len(p) <= 4 /\ \A i \in DOMAIN p : p[i].tag # "If"}

\* Two threads make one call each on one shared program (and on the one
\* compiled form of it), each with the context its call creates.
SharedInit ==
    /\ program \in SharedPrograms
    /\ code = <<>>
    /\ compiled = FALSE
    /\ ctx = [t \in Threads |-> NoContext]
    /\ prev = [t \in Threads |-> <<>>]
    /\ calls = [t \in Threads |-> 1]

SharedSpec ==
    SharedInit /\ [][Next]_vars

\* One step of a call that runs alone, as a function of its context: what
\* dispatch! and the handler it calls do, or one round of the loop and its
\* match. A fetch past the end is undefined.
SoloStep(c) ==
    IF c.pc = "fetch"
    THEN IF c.strategy = "computed_goto"
         THEN IF c.ip < Len(c.code) THEN dispatch(c) ELSE Undefined(c, "none")
         ELSE IF c.ip < Len(program) THEN fetch(c) ELSE Undefined(c, "none")
    ELSE IF c.pc # "execute"
    THEN c
    ELSE IF c.strategy = "computed_goto"
    THEN LET inst == Fetched(c)
         IN  CASE inst.execute = "begin" -> Begin_execute(c)
               [] inst.execute = "nop"   -> Nop_execute(c)
               [] inst.execute = "stop"  -> Stop_execute(c)
               [] inst.execute = "push"  -> Push_execute(UnionPush(inst.opcode), c)
               [] inst.execute = "if"    -> If_execute(UnionIf(inst.opcode), c)
               [] inst.execute = "add"   -> Add_execute(c)
               [] inst.execute = "mul"   -> Mul_execute(c)
    ELSE LET opcode == Opcode(c)
         IN  CASE opcode.tag = "Begin" -> Begin_execute_nodispatch(c)
               [] opcode.tag = "Nop"   -> Nop_execute_nodispatch(c)
               [] opcode.tag = "Stop"  -> Stop_execute_nodispatch(c)
               [] opcode.tag = "Push"  -> Push_execute_nodispatch(opcode.value, c)
               [] opcode.tag = "Add"   -> Add_execute_nodispatch(c)
               [] opcode.tag = "Mul"   -> Mul_execute_nodispatch(c)
               [] opcode.tag = "If"    -> If_execute_nodispatch(
                                              [if_true |-> opcode.if_true,
                                               if_false |-> opcode.if_false], c)

\* The context a call of the given strategy has after SoloSteps steps when
\* no other call is made.
SoloRun(strategy) ==
    LET start == IF strategy = "computed_goto"
                 THEN NewThreadedContext(CompileAll(program))
                 ELSE NewSwitchContext
        after[k \in 0..SoloSteps] ==
            IF k = 0 THEN Observe(start) ELSE Observe(SoloStep(after[k - 1]))
    IN  after[SoloSteps]

\* ------------------------------------------------ vocabulary of the claims

\* A call is running until it returns, panics, fails to allocate or runs into
\* undefined behaviour.
Running(c) ==
    c.pc \in {"fetch", "execute"}

Finished(c) ==
    c.pc \in {"returned", "panicked", "alloc_failed", "undefined"}

\* The calls thread t has finished, in order.
Runs(t) ==
    prev[t] \o (IF Finished(ctx[t]) THEN <<ctx[t]>> ELSE <<>>)

IndexOf(i) ==
    i - 1

NonEmpty(p) ==
    Len(p) > 0

BeginsWithBegin(p) ==
    NonEmpty(p) /\ p[1].tag = "Begin"

IfTargetsInBounds(p) ==
    \A i \in DOMAIN p :
        p[i].tag = "If" => p[i].if_true < Len(p) /\ p[i].if_false < Len(p)

\* The last instruction does not fall through to the index after it.
EndsClosed(p) ==
    NonEmpty(p) /\ p[Len(p)].tag \in {"Stop", "If"}

\* Every If jumps forward.
ForwardJumps(p) ==
    \A i \in DOMAIN p :
        p[i].tag = "If" => p[i].if_true > IndexOf(i) /\ p[i].if_false > IndexOf(i)

HasIf(p) ==
    \E i \in DOMAIN p : p[i].tag = "If"

\* The instruction of the program a context has fetched and is executing, or
\* has just executed.
Current(c) ==
    program[c.inst + 1]

\* Thread t is about to run the handler of an instruction with this tag.
Executing(t, tag) ==
    /\ ctx[t].pc = "execute"
    /\ Current(ctx[t]).tag = tag

\* Thread t has just run the handler of an instruction with this tag.
Executed(c, tag) ==
    /\ c.pc \in {"fetch", "returned", "panicked", "alloc_failed"}
    /\ Len(c.trace) > 1
    /\ Current(c).tag = tag

\* The stack a context had one view earlier.
StackBefore(c) ==
    c.trace[Len(c.trace) - 1][3]

\* ------------------------------------------------------------------ C1
\* C1: for a program that begins with Begin, has all If targets in bounds and
\* on which a call returned (Stop was reached and no stack-depth precondition
\* was violated), every finished call of the other dispatch strategy returned
\* too, with the same terminal outcome and the same final stack.
C1_SameOutcomeAndStack ==
    \A t \in Threads : \A i, j \in DOMAIN Runs(t) :
        ( /\ BeginsWithBegin(program)
          /\ IfTargetsInBounds(program)
          /\ Runs(t)[i].pc = "returned"
          /\ Runs(t)[i].strategy # Runs(t)[j].strategy )
        => /\ Runs(t)[j].pc = "returned"
           /\ Runs(t)[j].exit = Runs(t)[i].exit
           /\ Runs(t)[j].stack = Runs(t)[i].stack

\* A branching program has returned under both strategies with a value on
\* the stack.
C1_Witness ==
    \E t \in Threads :
        /\ BeginsWithBegin(program) /\ IfTargetsInBounds(program) /\ HasIf(program)
        /\ Len(prev[t]) > 0
        /\ prev[t][1].strategy = "switch_based"
        /\ ctx[t].strategy = "computed_goto"
        /\ ctx[t].pc = "returned"
        /\ ctx[t].stack # <<>>

\* ------------------------------------------------------------------ C2
\* C2 as stated, for the switch loop: on a non-empty program with all If
\* targets in bounds, a running call eventually stops running (by returning,
\* by a fatal failure, or at the latest by leaving the program).
C2_Original ==
    \A t \in Threads :
        ( /\ NonEmpty(program) /\ IfTargetsInBounds(program)
          /\ ctx[t].strategy = "switch_based" /\ Running(ctx[t]) )
            ~> ~Running(ctx[t])

\* C2 amended: on a non-empty program that ends with Stop and whose If
\* targets are all in bounds and forward, a running call eventually returns
\* an outcome or ends in a fatal failure.
C2_ForwardProgramsTerminate ==
    \A t \in Threads :
        ( /\ NonEmpty(program) /\ IfTargetsInBounds(program)
          /\ ForwardJumps(program) /\ program[Len(program)].tag = "Stop"
          /\ Running(ctx[t]) )
            ~> ctx[t].pc \in {"returned", "panicked", "alloc_failed"}

\* A call on such a program has taken its forward branch and returned.
C2_Witness ==
    \E t \in Threads :
        /\ NonEmpty(program) /\ IfTargetsInBounds(program)
        /\ ForwardJumps(program) /\ program[Len(program)].tag = "Stop"
        /\ \E k \in 2..Len(ctx[t].trace) :
              /\ ctx[t].trace[k - 1] = <<"execute", 3, <<U32Max>>>>
              /\ ctx[t].trace[k] = <<"fetch", 3, <<>>>>
        /\ ctx[t].pc = "returned"

\* ------------------------------------------------------------------ C3
\* C3 as stated: on a non-empty program with all If targets in bounds, every
\* fetch reads an index below the program length.
C3_Original ==
    (NonEmpty(program) /\ IfTargetsInBounds(program))
    => \A t \in Threads :
          /\ ctx[t].pc = "fetch" => ctx[t].ip < Len(program)
          /\ ctx[t].pc # "undefined"

\* C3 amended: on a non-empty program with all If targets in bounds whose
\* last instruction is Stop or If, every fetch of either dispatch loop reads
\* an index below the length of the sequence it reads.
C3_FetchInBounds ==
    (NonEmpty(program) /\ IfTargetsInBounds(program) /\ EndsClosed(program))
    => \A t \in Threads :
          /\ ctx[t].pc = "fetch" => ctx[t].ip < Len(program)
          /\ (ctx[t].pc = "fetch" /\ ctx[t].strategy = "computed_goto")
                => ctx[t].ip < Len(ctx[t].code)
          /\ ctx[t].pc # "undefined"

\* A call on such a program is about to fetch at the target of an If.
C3_Witness ==
    \E t \in Threads :
        /\ NonEmpty(program) /\ IfTargetsInBounds(program) /\ EndsClosed(program)
        /\ ctx[t].pc = "fetch"
        /\ Executed(ctx[t], "If")
        /\ ctx[t].ip > 0

\* ------------------------------------------------------------------ C4
\* r is (a + b) mod 2^32, stated on the halves: the low halves add up to the
\* low half of r plus a carry of 0 or 1, the high halves and that carry to
\* the high half of r plus a dropped bit of 0 or 1.
IsSumMod32(r, a, b) ==
    /\ r[1] \in 0..(Half - 1) /\ r[2] \in 0..(Half - 1)
    /\ \E carry \in {0, 1} :
          /\ a[2] + b[2] = r[2] + carry * Half
          /\ \E dropped \in {0, 1} : a[1] + b[1] + carry = r[1] + dropped * Half

\* C4: Add on a stack of at least two values replaces the top value b and
\* the value a under it by (a + b) mod 2^32, leaves everything below in
\* place and goes on to the next fetch; 4294967295 + 1 gives 0.
C4_AddWraps ==
    [][\A t \in Threads :
          (Executing(t, "Add") /\ Len(ctx[t].stack) >= 2 /\ ctx'[t] # ctx[t])
          => LET s  == ctx[t].stack
                 n  == Len(s)
                 b  == s[n]
                 a  == s[n - 1]
                 s2 == ctx'[t].stack
             IN  /\ Len(s2) = n - 1
                 /\ \A i \in 1..(n - 2) : s2[i] = s[i]
                 /\ IsSumMod32(s2[n - 1], a, b)
                 /\ (a = U32Max /\ b = One) => s2[n - 1] = Zero
                 /\ ctx'[t].pc = "fetch"
                 /\ ctx'[t].ip = ctx[t].ip]_vars

\* Add has folded 4294967295 and 1 into 0 above a value that stayed.
C4_Witness ==
    \E t \in Threads :
        /\ Executed(ctx[t], "Add")
        /\ StackBefore(ctx[t]) = <<One, U32Max, One>>
        /\ ctx[t].stack = <<One, Zero>>

\* ------------------------------------------------------------------ C5
\* (x * y) mod 2^16 for 16-bit x and y, through the two bytes of y.
MulHalfMod(x, y) ==
    (x * (y % Base) + ((x * (y \div Base)) % Base) * Base) % Half

\* (a * b) mod 2^32 on the halves: the full product of the low halves, plus
\* the two cross products (each mod 2^16) that land in the high half.
ProductMod32(a, b) ==
    LET u    == a[2] * (b[2] % Base)
        t    == a[2] * (b[2] \div Base)
        low  == (u % Half) + (t % Base) * Base
        high == (u \div Half) + (t \div Base) + (low \div Half)
    IN  U32((high + MulHalfMod(a[1], b[2]) + MulHalfMod(a[2], b[1])) % Half,
            low % Half)

\* C5: Mul on a stack of at least two values replaces the top value b and
\* the value a under it by (a * b) mod 2^32, leaves everything below in
\* place and goes on to the next fetch.
C5_MulWraps ==
    [][\A t \in Threads :
          (Executing(t, "Mul") /\ Len(ctx[t].stack) >= 2 /\ ctx'[t] # ctx[t])
          => LET s  == ctx[t].stack
                 n  == Len(s)
                 b  == s[n]
                 a  == s[n - 1]
                 s2 == ctx'[t].stack
             IN  /\ Len(s2) = n - 1
                 /\ \A i \in 1..(n - 2) : s2[i] = s[i]
                 /\ s2[n - 1] = ProductMod32(a, b)
                 /\ ctx'[t].pc = "fetch"
                 /\ ctx'[t].ip = ctx[t].ip]_vars

\* Mul has folded 4294967295 * 4294967295 into 1 above a value that stayed.
C5_Witness ==
    \E t \in Threads :
        /\ Executed(ctx[t], "Mul")
        /\ StackBefore(ctx[t]) = <<Zero, U32Max, U32Max>>
        /\ ctx[t].stack = <<Zero, One>>

\* ------------------------------------------------------------------ C6
\* C6: If on a non-empty stack pops exactly the top value and sets ip to
\* if_false when that value is 0 and to if_true otherwise; the fetch that
\* follows reads the instruction at that index, under both strategies.
C6_IfJumps ==
    [][\A t \in Threads :
          /\ (Executing(t, "If") /\ Len(ctx[t].stack) >= 1 /\ ctx'[t] # ctx[t])
             => LET s    == ctx[t].stack
                    cond == s[Len(s)]
                    self == Current(ctx[t])
                IN  /\ ctx'[t].stack = SubSeq(s, 1, Len(s) - 1)
                    /\ ctx'[t].ip = IF cond = Zero THEN self.if_false ELSE self.if_true
                    /\ ctx'[t].pc = "fetch"
          /\ (Executed(ctx[t], "If") /\ ctx[t].pc = "fetch" /\ ctx'[t].pc = "execute")
             => /\ ctx'[t].inst = ctx[t].ip
                /\ ctx'[t].strategy = "computed_goto"
                      => Fetched(ctx'[t]) = compile(program[ctx[t].ip + 1])]_vars

\* An If with two different targets has popped 4294967295 and the
\* instruction at if_true has been fetched.
C6_Witness ==
    \E t \in Threads :
        /\ ctx[t].pc = "execute"
        /\ Len(ctx[t].trace) >= 3
        /\ LET n      == Len(ctx[t].trace)
               atIf   == ctx[t].trace[n - 2]
               jumped == ctx[t].trace[n - 1]
               self   == program[atIf[2]]
           IN  /\ atIf[1] = "execute"
               /\ self.tag = "If"
               /\ self.if_true # self.if_false
               /\ atIf[3] # <<>>
               /\ atIf[3][Len(atIf[3])] = U32Max
               /\ jumped = <<"fetch", self.if_true, SubSeq(atIf[3], 1, Len(atIf[3]) - 1)>>
               /\ ctx[t].inst = self.if_true

\* ------------------------------------------------------------------ C7
\* Thread t is about to run Add or Mul on fewer than two values, or If on an
\* empty stack.
MissingOperand(t) ==
    \/ (Executing(t, "Add") \/ Executing(t, "Mul")) /\ Len(ctx[t].stack) < 2
    \/ Executing(t, "If") /\ Len(ctx[t].stack) = 0

\* C7: under both strategies a missing operand ends the call in a panic: no
\* Exit value is returned, and the context never changes again.
C7_MissingOperandPanics ==
    [][\A t \in Threads :
          /\ (MissingOperand(t) /\ ctx'[t] # ctx[t])
             => /\ ctx'[t].pc = "panicked"
                /\ ctx'[t].exit = "none"
          /\ ctx[t].pc = "panicked" => ctx'[t] = ctx[t]]_vars

\* Add has panicked on a stack of one value.
C7_Witness ==
    \E t \in Threads :
        /\ ctx[t].pc = "panicked"
        /\ Current(ctx[t]).tag = "Add"
        /\ Len(ctx[t].stack) = 1

\* ------------------------------------------------------------------ C8
\* C8: Stop returns Break(Stop) at once and leaves ip and the stack as they
\* were; afterwards the context executes nothing more: it only gives way to
\* the fresh context of the thread's next call.
C8_StopReturns ==
    [][\A t \in Threads :
          /\ (Executing(t, "Stop") /\ ctx'[t] # ctx[t])
             => /\ ctx'[t].pc = "returned"
                /\ ctx'[t].exit = "Stop"
                /\ ctx'[t].stack = ctx[t].stack
                /\ ctx'[t].ip = ctx[t].ip
          /\ (ctx[t].pc = "returned" /\ ctx'[t] # ctx[t])
             => /\ ctx'[t].trace = <<<<"fetch", 0, <<>>>>>>
                /\ ctx'[t].exit = "none"
                /\ prev'[t] = Append(prev[t], ctx[t])]_vars

\* Stop has returned with two values left on the stack.
C8_Witness ==
    \E t \in Threads :
        /\ ctx[t].pc = "returned"
        /\ Current(ctx[t]).tag = "Stop"
        /\ Len(ctx[t].stack) = 2
        /\ StackBefore(ctx[t]) = ctx[t].stack

Contexts(t) ==
    {prev[t][i] : i \in DOMAIN prev[t]} \cup {ctx[t]}

IsPrefix(s, r) ==
    /\ Len(s) <= Len(r)
    /\ \A i \in DOMAIN s : s[i] = r[i]

\* C10: every call starts from ip = 0 and an empty stack; a call of the same
\* strategy as an earlier call of the thread goes through the views of that
\* call, in the same order, and ends as it ended, with the same outcome and
\* the same stack.
C10_Idempotent ==
    \A t \in Threads :
        /\ ctx[t].trace # <<>> => ctx[t].trace[1] = <<"fetch", 0, <<>>>>
        /\ \A i \in DOMAIN prev[t] :
              prev[t][i].strategy = ctx[t].strategy
              => IsPrefix(ctx[t].trace, prev[t][i].trace)
        /\ \A i, j \in DOMAIN Runs(t) :
              Runs(t)[i].strategy = Runs(t)[j].strategy
              => /\ Runs(t)[i].trace = Runs(t)[j].trace
                 /\ Runs(t)[i].pc = Runs(t)[j].pc
                 /\ Runs(t)[i].exit = Runs(t)[j].exit
                 /\ Runs(t)[i].stack = Runs(t)[j].stack

\* The second threaded call of a thread has returned, as the first did, with
\* a value on the stack.
C10_Witness ==
    \E t \in Threads :
        /\ Len(prev[t]) = 1
        /\ prev[t][1].strategy = "computed_goto"
        /\ ctx[t].strategy = "computed_goto"
        /\ ctx[t].pc = "returned"
        /\ ctx[t].stack # <<>>

\* ----------------------------------------------------------------- C11
\* The views a call on the sample program goes through: the instructions at
\* indices 0 to 6 in that order, [2, 0] on the stack before Add, [2] at Stop.
SampleTrace ==
    << <<"fetch", 0, <<>>>>,           <<"execute", 1, <<>>>>,
       <<"fetch", 1, <<>>>>,           <<"execute", 2, <<>>>>,
       <<"fetch", 2, <<One>>>>,        <<"execute", 3, <<One>>>>,
       <<"fetch", 3, <<>>>>,           <<"execute", 4, <<>>>>,
       <<"fetch", 4, <<Two>>>>,        <<"execute", 5, <<Two>>>>,
       <<"fetch", 5, <<Two, Zero>>>>,  <<"execute", 6, <<Two, Zero>>>>,
       <<"fetch", 6, <<Two>>>>,        <<"execute", 7, <<Two>>>>,
       <<"returned", 7, <<Two>>>> >>

\* C11: on the sample program a call of either strategy executes the
\* instructions at indices 0, 1, 2, 3, 4, 5, 6 in that order, has [2, 0] on
\* the stack just before Add and [2] when it reaches Stop, and returns Stop.
C11_SampleRun ==
    program = SampleProgram
    => \A t \in Threads : \A c \in {prev[t][i] : i \in DOMAIN prev[t]} \cup {ctx[t]} :
          /\ IsPrefix(c.trace, SampleTrace)
          /\ c.pc = "execute" => c.inst = c.ip - 1
          /\ Finished(c) => /\ c.trace = SampleTrace
                            /\ c.pc = "returned"
                            /\ c.exit = "Stop"
                            /\ c.stack = <<Two>>

\* The sample program has returned under the switch loop and then under
\* threaded dispatch.
C11_Witness ==
    /\ program = SampleProgram
    /\ Len(prev["main"]) = 1
    /\ prev["main"][1].strategy = "switch_based"
    /\ prev["main"][1].trace = SampleTrace
    /\ ctx["main"].strategy = "computed_goto"
    /\ ctx["main"].trace = SampleTrace

\* ----------------------------------------------------------------- C12
\* C12: Push(v) on a stack with room appends v on top and changes nothing
\* else: the values already there stay in place, ip stays at the next index
\* and the call goes on to the next fetch; a call on [Push(v), Stop] ends by
\* returning Stop with the stack [v].
C12_PushAppends ==
    /\ [][\A t \in Threads :
             (Executing(t, "Push") /\ Len(ctx[t].stack) < MaxStack /\ ctx'[t] # ctx[t])
             => /\ ctx'[t].stack = Append(ctx[t].stack, Current(ctx[t]).value)
                /\ ctx'[t].ip = ctx[t].ip
                /\ ctx'[t].ip = ctx[t].inst + 1
                /\ ctx'[t].pc = "fetch"
                /\ ctx'[t].exit = ctx[t].exit]_vars
    /\ [](\A t \in Threads :
             ( /\ Len(program) = 2
               /\ program[1].tag = "Push" /\ program[2].tag = "Stop"
               /\ Finished(ctx[t]) )
             => /\ ctx[t].pc = "returned"
                /\ ctx[t].exit = "Stop"
                /\ ctx[t].stack = <<program[1].value>>)

\* Push(4294967295) has gone on top of two values that stayed.
C12_Witness ==
    \E t \in Threads :
        /\ Executed(ctx[t], "Push")
        /\ StackBefore(ctx[t]) = <<Zero, One>>
        /\ ctx[t].stack = <<Zero, One, U32Max>>

\* ----------------------------------------------------------------- C13
\* The instruction sequence a call reads from is the shared one.
SharesProgram(c) ==
    c.strategy = "computed_goto" => (compiled /\ c.code = code)

\* The call ended as the call running alone ends. After a fetch past the end
\* neither has a defined outcome.
SameEnd(c, alone) ==
    /\ c.pc = alone.pc
    /\ c.ip = alone.ip
    /\ c.stack = alone.stack
    /\ c.trace = alone.trace
    /\ c.pc # "undefined" => c.exit = alone.exit

\* C13: calls running at once on one shared program, each with its own
\* context, do not interfere: under every interleaving each call goes
\* through the views it goes through when it runs alone and ends with the
\* same outcome and stack, and no step changes the shared program or its
\* compiled form.
C13_NoInterference ==
    /\ [](\A t \in Threads :
             ctx[t].pc # "idle"
             => LET alone == SoloRun(ctx[t].strategy)
                IN  /\ ~Running(alone)
                    /\ SharesProgram(ctx[t])
                    /\ IsPrefix(ctx[t].trace, alone.trace)
                    /\ Finished(ctx[t]) => SameEnd(ctx[t], alone))
    /\ [][/\ program' = program
          /\ compiled => (compiled' /\ code' = code)
          /\ \A t \in Threads :
                ctx'[t] # ctx[t] => \A u \in Threads \ {t} : ctx'[u] = ctx[u]]_vars

\* Both calls are in the middle of the same branch program, one threaded and
\* about to execute Add, the other in the loop and about to fetch the If.
C13_Witness ==
    /\ program \in BranchPrograms
    /\ ctx["main"].strategy = "computed_goto"
    /\ ctx["main"].pc = "execute" /\ Current(ctx["main"]).tag = "Add"
    /\ Len(ctx["main"].stack) = 2
    /\ ctx["worker"].strategy = "switch_based"
    /\ ctx["worker"].pc = "fetch" /\ ctx["worker"].ip = 2
    /\ Len(ctx["worker"].stack) = 1

\* ----------------------------------------------------------------- C14
\* C14: ip is 0 when a call starts; fetching the instruction at index i sets
\* ip to i + 1 before its handler starts, so whenever a handler is about to
\* run, ip is the index of its instruction plus one; and no handler other
\* than If changes ip.
C14_IpAdvance ==
    /\ [](\A t \in Threads :
             /\ ctx[t].pc # "idle" => ctx[t].trace[1] = <<"fetch", 0, <<>>>>
             /\ ctx[t].pc = "execute" => ctx[t].ip = ctx[t].inst + 1)
    /\ [][\A t \in Threads :
             /\ (ctx[t].pc \in {"idle", "returned"} /\ ctx'[t] # ctx[t])
                => (ctx'[t].pc = "fetch" /\ ctx'[t].ip = 0)
             /\ (ctx[t].pc = "fetch" /\ ctx'[t].pc = "execute")
                => /\ ctx'[t].inst = ctx[t].ip
                   /\ ctx'[t].ip = ctx[t].ip + 1
                   /\ ctx'[t].stack = ctx[t].stack
             /\ (ctx[t].pc = "execute" /\ Current(ctx[t]).tag # "If")
                => ctx'[t].ip = ctx[t].ip]_vars

\* The handler of the Add at index 5 is about to run with ip = 6, after an
\* If that set ip to 3.
C14_Witness ==
    \E t \in Threads :
        /\ Executing(t, "Add")
        /\ ctx[t].inst = 5 /\ ctx[t].ip = 6
        /\ program[3].tag = "If"

\* ----------------------------------------------------------------- C15
\* The views two calls have both gone through are the same, one by one.
LockStep(c, d) ==
    \A k \in 1..Len(c.trace) :
        k <= Len(d.trace) => c.trace[k] = d.trace[k]

\* C15: a threaded call and a loop call on the same program run in lock
\* step: after the same number of steps both have the same ip and the same
\* stack and are at the same point (fetching, executing, returned or
\* aborted), so a failed precondition or a Stop that one reaches at step k
\* the other reaches at step k too, with the same outcome.
C15_LockStep ==
    \A t, u \in Threads :
        ( /\ ctx[t].strategy = "computed_goto"
          /\ ctx[u].strategy = "switch_based" )
        => /\ LockStep(ctx[t], ctx[u])
           /\ (Len(ctx[t].trace) = Len(ctx[u].trace))
              => /\ ctx[t].pc = ctx[u].pc
                 /\ ctx[t].ip = ctx[u].ip
                 /\ ctx[t].stack = ctx[u].stack
                 /\ ctx[t].pc \in {"returned", "panicked"} => ctx[t].exit = ctx[u].exit
           /\ (Finished(ctx[t]) /\ Finished(ctx[u]))
              => ctx[t].trace = ctx[u].trace

\* A threaded call and a loop call have both been aborted by the Add at
\* index 5 of a branch program, which found one value on the stack.
C15_Witness ==
    /\ program \in BranchPrograms
    /\ ctx["main"].strategy = "computed_goto"
    /\ ctx["worker"].strategy = "switch_based"
    /\ ctx["main"].pc = "panicked" /\ ctx["worker"].pc = "panicked"
    /\ ctx["main"].inst = 5 /\ ctx["worker"].inst = 5
    /\ Len(ctx["main"].stack) = 1

\* ----------------------------------------------------------------- C16
\* The handler each instruction variant is to be bound to.
HandlerOf ==
    [Begin |-> "begin", Nop |-> "nop", Stop |-> "stop", Push |-> "push",
     If |-> "if", Add |-> "add", Mul |-> "mul"]

\* C16: compilation accepts every program and keeps length, order and
\* payload: the compiled instruction at each index carries the handler of
\* the variant of the raw instruction at that index, a compiled Push holds
\* the Push's value and a compiled If holds the If's two targets, in bounds
\* or not.
C16_CompilePreserves ==
    compiled
    => /\ Len(code) = Len(program)
       /\ \A i \in DOMAIN program :
             /\ code[i].execute = HandlerOf[program[i].tag]
             /\ program[i].tag = "Push"
                => UnionPush(code[i].opcode) = program[i].value
             /\ program[i].tag = "If"
                => /\ UnionIf(code[i].opcode).if_true = program[i].if_true
                   /\ UnionIf(code[i].opcode).if_false = program[i].if_false
             /\ program[i].tag \notin {"Push", "If"} => code[i].opcode = <<>>

\* A program whose If has different targets, one of them past the end, has
\* been compiled.
C16_Witness ==
    /\ compiled
    /\ Len(program) = 2
    /\ program[1].tag = "Push" /\ program[1].value = U32Max
    /\ program[2].tag = "If"
    /\ program[2].if_true = 2 /\ program[2].if_false = 0
    /\ code[2].opcode = <<2, 0>>

\* ----------------------------------------------------------------- C17
\* C17: Begin and Nop change nothing: the stack and every other field are as
\* before, ip stays at the next index (the one the fetch set), and the call
\* goes on to fetch the instruction there.
C17_BeginNopNoEffect ==
    [][\A t \in Threads :
          ((Executing(t, "Begin") \/ Executing(t, "Nop")) /\ ctx'[t] # ctx[t])
          => /\ ctx'[t].stack = ctx[t].stack
             /\ ctx'[t].ip = ctx[t].inst + 1
             /\ ctx'[t].pc = "fetch"
             /\ ctx'[t].exit = "none"
             /\ ctx'[t].code = ctx[t].code]_vars

\* Begin has executed with values on the stack, which are still there.
C17_Witness ==
    \E t \in Threads :
        /\ Executed(ctx[t], "Begin")
        /\ ctx[t].pc = "fetch"
        /\ ctx[t].stack = <<U32Max>>

\* ----------------------------------------------------------------- C18
\* The sequence a running call reads instructions from.
Reads(c) ==
    IF c.strategy = "computed_goto" THEN c.code ELSE program

\* C18: a step of a call changes only the ip and the stack of its context
\* (and where the call is and what it returns): the raw program and the
\* compiled code, shared or as the context holds it, are in every state what
\* they were when the call started, and the records of earlier calls and the
\* other contexts are untouched.
C18_OnlyIpAndStack ==
    /\ [](\A t \in Threads :
             ctx[t].strategy = "computed_goto"
             => (compiled /\ ctx[t].code = code /\ Len(code) = Len(program)))
    /\ [](\A t \in Threads : ctx[t].strategy = "switch_based" => ctx[t].code = <<>>)
    /\ [][/\ program' = program
          /\ compiled => (compiled' /\ code' = code)
          /\ \A t \in Threads :
                (Running(ctx[t]) /\ ctx'[t] # ctx[t])
                => /\ Reads(ctx'[t]) = Reads(ctx[t])
                   /\ ctx'[t].code = ctx[t].code
                   /\ ctx'[t].strategy = ctx[t].strategy
                   /\ prev' = prev /\ calls' = calls
                   /\ \A u \in Threads \ {t} : ctx'[u] = ctx[u]]_vars

\* A loop call has executed Mul, which replaced two values by one, and the
\* program is still the one it started on, compiled or not.
C18_Witness ==
    \E t \in Threads :
        /\ ctx[t].strategy = "switch_based"
        /\ Executed(ctx[t], "Mul")
        /\ Len(StackBefore(ctx[t])) = 2
        /\ Len(ctx[t].stack) = 1
        /\ ctx[t].code = <<>>

\* ----------------------------------------------------------------- C19
\* C19: a missing operand is found before anything is popped: when Add or
\* Mul runs with fewer than two values, or If with none, the call is aborted
\* with the stack exactly as it was before the instruction and with ip
\* already past the failing instruction.
C19_AbortKeepsStack ==
    /\ [][\A t \in Threads :
             (MissingOperand(t) /\ ctx'[t] # ctx[t])
             => /\ ctx'[t].stack = ctx[t].stack
                /\ ctx'[t].ip = ctx[t].inst + 1
                /\ ctx'[t].inst = ctx[t].inst]_vars
    /\ [](\A t \in Threads :
             ctx[t].pc = "panicked"
             => /\ ctx[t].ip = ctx[t].inst + 1
                /\ ctx[t].stack = StackBefore(ctx[t])
                /\ Current(ctx[t]).tag \in {"Add", "Mul", "If"}
                /\ Len(ctx[t].stack) < 2)

\* Mul has been aborted in the loop with its single value still on the stack.
C19_Witness ==
    \E t \in Threads :
        /\ ctx[t].strategy = "switch_based"
        /\ ctx[t].pc = "panicked"
        /\ Current(ctx[t]).tag = "Mul"
        /\ ctx[t].stack = <<U32Max>>
        /\ ctx[t].ip = ctx[t].inst + 1

====
